---- MODULE Spec2Model ----
(***************************************************************************)
(* Tide extrema detection of the Quick Tide Checker popup:                 *)
(* displayTideData -> getPreciseTides -> filterByTimeSeparation ->         *)
(* enforceAlternation, and the query layer (trend, next high, next low,    *)
(* last tide) of displayTideData.                                          *)
(*                                                                         *)
(* Units.  Heights are integers in centimetres (the API delivers metres    *)
(* with two decimals, toFixed(2) prints centimetres).  Instants are        *)
(* integers in milliseconds since the epoch, as Date.getTime() gives them. *)
(* prominence is kept in half centimetres (twice the source's value), so   *)
(* that (y1 + y3) / 2 needs no fraction; only comparisons of two           *)
(* prominences are made, and doubling keeps their order.  Quotients are    *)
(* computed exactly (rationals), where the source computes IEEE doubles.   *)
(***************************************************************************)
EXTENDS Integers, Sequences, FiniteSets, Bags

VARIABLES
    seaLevels,      \* data.hourly.sea_level_height_msl: heights, NULL for a gap
    times,          \* data.hourly.time: ISO timestamps, one per sample
    now,            \* new Date() read by displayTideData, in ms
    pc,             \* "fetched": response at hand; "displayed": handler has run
    candidates,     \* getPreciseTides: candidates after STEP 1
    filteredTides,  \* getPreciseTides: filteredTides after STEP 2
    preciseTides,   \* list returned by getPreciseTides
    currentIndex,   \* displayTideData: current time index (0-based)
    isRising,       \* displayTideData: isRising
    nextHigh,       \* displayTideData: <<>> when find() gave undefined, else <<event>>
    nextLow,        \* the same for LOW
    lastTide,       \* displayTideData: <<>> when null, else <<event>>
    tideStatus,     \* displayTideData: the trend shown, "" before it is set
    panel,          \* what tideDataDiv shows
    DEBUG_MODE,     \* the build's DEBUG_MODE flag
    consoleLog,     \* what validateTideSequence wrote to the console
    storage,        \* chrome.storage.sync: latitude, longitude, locationName
    selectedLocation,   \* <<>> when null, else <<[latitude, longitude, name]>>
    latitudeInput,  \* parseFloat(latitudeInput.value), NAN for a text without number
    longitudeInput, \* parseFloat(longitudeInput.value)
    view,           \* which of location-setup and tide-info is not hidden
    errorMessage,   \* text of errorMessage while it is shown, "" while hidden
    locationDisplay,    \* locationDisplay.textContent: <<>> while empty, else <<name>>
    shown,          \* arguments of the latest showTideInfo call: <<>> or <<[latitude, longitude]>>
    panelFor,       \* coordinates whose response tideDataDiv renders: <<>> or <<[latitude, longitude]>>
    pending,        \* bag of the awaited operations that have not completed
    saves,          \* number of clicks on saveLocationBtn
    opened,         \* number of times the popup was opened
    searchText,     \* locationSearchInput.value: <<>> while empty, else <<text>>
    searchResultsHidden,    \* searchResultsDiv has the class hidden
    searchResultsContent,   \* what searchResultsDiv holds: "", "loading", "results" or "message"
    searches                \* how many queries the user has typed so far

engineVars == <<seaLevels, times, now, pc, candidates, filteredTides, preciseTides,
                currentIndex, isRising, nextHigh, nextLow, lastTide, tideStatus,
                DEBUG_MODE, consoleLog>>

searchVars == <<searchText, searchResultsHidden, searchResultsContent, searches>>

uiVars == <<storage, selectedLocation, latitudeInput, longitudeInput, view,
            errorMessage, locationDisplay, shown, panelFor, pending, saves, opened,
            searchVars>>

vars == <<engineVars, panel, uiVars>>

----------------------------------------------------------------------------
(* Bounds of the model *)

\* longest series of the exhaustive family (Spec)
MaxLen == 5

\* number of samples of a series of the wave family (SpecLong)
LongLen == 13

\* most samples of a wave series that are disturbed
MaxSpikes == 2

\* hour (after the epoch) of the first sample
StartHour == 2

----------------------------------------------------------------------------
(* Program constants and JavaScript values *)

\* 60 * 60 * 1000: milliseconds per hour
HourMs == 3600000

\* TIDAL_CONSTANTS.MIN_TIDE_SEPARATION_MS = 4.5 * 60 * 60 * 1000
MIN_TIDE_SEPARATION_MS == 16200000

\* JavaScript null (a gap in the series); no height has this value
NULL == 77777

\* JavaScript undefined (an array read past the end); no height has this value
UNDEFINED == 88888

\* arr[i] for a 0-based index i
At(arr, i) == IF i >= 0 /\ i < Len(arr) THEN arr[i + 1] ELSE UNDEFINED

\* x == null
IsNullish(x) == x = NULL \/ x = UNDEFINED

\* truthiness of a number, null or undefined
Truthy(x) == x # NULL /\ x # UNDEFINED /\ x # 0

\* a || b
Or(a, b) == IF Truthy(a) THEN a ELSE b

\* ToNumber of a number or null (null gives 0)
ToNumber(x) == IF x = NULL THEN 0 ELSE x

\* a > b on numbers, null and undefined (ToNumber(undefined) is NaN, and
\* every comparison with NaN is false)
Greater(a, b) ==
    IF a = UNDEFINED \/ b = UNDEFINED THEN FALSE
    ELSE ToNumber(a) > ToNumber(b)

Abs(x) == IF x < 0 THEN -x ELSE x

\* floor of n / d, d # 0
FloorDiv(n, d) == IF d > 0 THEN n \div d ELSE (-n) \div (-d)

\* Date.prototype.toISOString of a time value: its calendar fields
\* (day count since the epoch, hour, minute, second, millisecond)
ToISOString(ms) ==
    [day |-> ms \div (24 * HourMs),
     hour |-> (ms \div HourMs) % 24,
     minute |-> (ms \div 60000) % 60,
     second |-> (ms \div 1000) % 60,
     milli |-> ms % 1000]

\* new Date(isoString).getTime()
DateParse(iso) ==
    (((iso.day * 24 + iso.hour) * 60 + iso.minute) * 60 + iso.second) * 1000 + iso.milli

\* Number.prototype.toFixed(2) of the height num / den metres-in-centimetres:
\* the nearest centimetre, a tie going away from zero
ToFixed2(num, den) ==
    LET n == IF den > 0 THEN num ELSE -num
        d == Abs(den)
    IN IF n >= 0 THEN (2 * n + d) \div (2 * d) ELSE -((2 * (-n) + d) \div (2 * d))

----------------------------------------------------------------------------
(* getPreciseTides STEP 1: candidate finder and interpolation *)

\* SkipTriple testing the centre sample alone
SkipTripleCentreOnly(y1, y2, y3) == IsNullish(y2)

\* if (y1 == null || y2 == null || y3 == null) continue;
SkipTriple(y1, y2, y3) == IsNullish(y1) \/ IsNullish(y2) \/ IsNullish(y3)

\* IsHigh with >= for >
IsHighOrEqual(y1, y2, y3) == ~Greater(y1, y2) /\ ~Greater(y3, y2)

\* isHigh = y2 > y1 && y2 > y3
IsHigh(y1, y2, y3) == Greater(y2, y1) /\ Greater(y2, y3)

\* IsLow with <= for <
IsLowOrEqual(y1, y2, y3) == ~Greater(y2, y1) /\ ~Greater(y2, y3)

\* isLow = y2 < y1 && y2 < y3
IsLow(y1, y2, y3) == Greater(y1, y2) /\ Greater(y3, y2)

\* Divisor without its factor 2
DivisorHalved(y1, y2, y3) == y1 - 2 * y2 + y3

\* divisor = 2 * (y1 - 2 * y2 + y3)
Divisor(y1, y2, y3) == 2 * (y1 - 2 * y2 + y3)

\* PreciseTimeMs with offset = (y1 - y2) / divisor
PreciseTimeMsFromCentre(baseTime, y1, y2, y3) ==
    IF Divisor(y1, y2, y3) # 0
    THEN baseTime + FloorDiv((y1 - y2) * HourMs, Divisor(y1, y2, y3))
    ELSE baseTime

\* preciseTime.getTime(): baseTime + offset * 60 * 60 * 1000 with
\* offset = (y1 - y3) / divisor, or 0 when divisor = 0; new Date() drops the
\* fraction of a millisecond
PreciseTimeMs(baseTime, y1, y2, y3) ==
    IF Divisor(y1, y2, y3) # 0
    THEN baseTime + FloorDiv((y1 - y3) * HourMs, Divisor(y1, y2, y3))
    ELSE baseTime

\* preciseHeight.toFixed(2) with preciseHeight = y2 - 0.25 * (y1 - y3) * offset
PreciseHeight(y1, y2, y3) ==
    IF Divisor(y1, y2, y3) # 0
    THEN ToFixed2(4 * Divisor(y1, y2, y3) * y2 - (y1 - y3) * (y1 - y3),
                  4 * Divisor(y1, y2, y3))
    ELSE y2

\* prominence = Math.abs(y2 - ((y1 + y3) / 2)), in half centimetres
Prominence(y1, y2, y3) == Abs(2 * y2 - (y1 + y3))

\* the loop body of STEP 1 at index i: <<>> when nothing is pushed, else <<candidate>>
CandidateAt(levels, tms, i) ==
    IF SkipTriple(At(levels, i - 1), At(levels, i), At(levels, i + 1)) THEN <<>>
    ELSE LET y1 == ToNumber(At(levels, i - 1))
             y2 == ToNumber(At(levels, i))
             y3 == ToNumber(At(levels, i + 1))
             isHigh == IsHigh(At(levels, i - 1), At(levels, i), At(levels, i + 1))
             isLow == IsLow(At(levels, i - 1), At(levels, i), At(levels, i + 1))
             preciseMs == PreciseTimeMs(DateParse(At(tms, i)), y1, y2, y3)
         IN IF isHigh \/ isLow
            THEN << [type |-> IF isHigh THEN "HIGH" ELSE "LOW",
                     time |-> ToISOString(preciseMs),
                     timeMs |-> preciseMs,
                     height |-> PreciseHeight(y1, y2, y3),
                     prominence |-> Prominence(y1, y2, y3),
                     index |-> i] >>
            ELSE <<>>

RECURSIVE FindCandidates(_, _, _)
\* for (let i = 1; i < seaLevels.length - 1; i++) { ... candidates.push(...) }
FindCandidates(levels, tms, i) ==
    IF i < Len(levels) - 1
    THEN CandidateAt(levels, tms, i) \o FindCandidates(levels, tms, i + 1)
    ELSE <<>>

----------------------------------------------------------------------------
(* getPreciseTides STEP 2: filterByTimeSeparation *)

\* FilterStep comparing the milliseconds of timeDiff with the 4.5 of
\* MIN_TIDE_SEPARATION_HOURS
FilterStepHours(filtered, current) ==
    LET last == filtered[Len(filtered)]
        timeDiff == current.timeMs - last.timeMs
    IN IF 2 * timeDiff >= 9
       THEN Append(filtered, current)
       ELSE IF current.prominence > last.prominence
            THEN [filtered EXCEPT ![Len(filtered)] = current]
            ELSE filtered

\* FilterStep raising the kept candidate's prominence where it should put
\* current in its place: last.prominence = current.prominence
FilterStepPatchesLast(filtered, current) ==
    LET last == filtered[Len(filtered)]
        timeDiff == current.timeMs - last.timeMs
    IN IF timeDiff >= MIN_TIDE_SEPARATION_MS
       THEN Append(filtered, current)
       ELSE IF current.prominence > last.prominence
            THEN [filtered EXCEPT ![Len(filtered)].prominence = current.prominence]
            ELSE filtered

\* FilterStep keeping the later of two conflicting candidates
FilterStepKeepsLater(filtered, current) ==
    LET last == filtered[Len(filtered)]
        timeDiff == current.timeMs - last.timeMs
    IN IF timeDiff >= MIN_TIDE_SEPARATION_MS
       THEN Append(filtered, current)
       ELSE [filtered EXCEPT ![Len(filtered)] = current]

\* FilterStep comparing current with the first kept candidate, filtered[0]
FilterStepAgainstFirst(filtered, current) ==
    LET first == filtered[1]
        timeDiff == current.timeMs - first.timeMs
    IN IF timeDiff >= MIN_TIDE_SEPARATION_MS
       THEN Append(filtered, current)
       ELSE IF current.prominence > first.prominence
            THEN [filtered EXCEPT ![Len(filtered)] = current]
            ELSE filtered

\* one iteration of the loop: filtered after looking at current
FilterStep(filtered, current) ==
    LET last == filtered[Len(filtered)]
        timeDiff == current.timeMs - last.timeMs
    IN IF timeDiff >= MIN_TIDE_SEPARATION_MS
       THEN Append(filtered, current)
       ELSE IF current.prominence > last.prominence
            THEN [filtered EXCEPT ![Len(filtered)] = current]
            ELSE filtered

RECURSIVE FilterLoop(_, _, _)
FilterLoop(cands, i, filtered) ==
    IF i <= Len(cands)
    THEN FilterLoop(cands, i + 1, FilterStep(filtered, cands[i]))
    ELSE filtered

filterByTimeSeparation(cands) ==
    IF Len(cands) = 0 THEN <<>> ELSE FilterLoop(cands, 2, <<cands[1]>>)

----------------------------------------------------------------------------
(* getPreciseTides STEP 3: enforceAlternation *)

\* AlternationStep pushing the more prominent tide where it should replace
AlternationStepPushes(validated, current) ==
    LET last == validated[Len(validated)]
    IN IF current.type # last.type
       THEN Append(validated, current)
       ELSE IF current.prominence > last.prominence
            THEN Append(validated, current)
            ELSE validated

\* AlternationStep replacing validated[validated.length - 2]
AlternationStepOffByOne(validated, current) ==
    LET last == validated[Len(validated)]
    IN IF current.type # last.type
       THEN Append(validated, current)
       ELSE IF current.prominence > last.prominence /\ Len(validated) >= 2
            THEN [validated EXCEPT ![Len(validated) - 1] = current]
            ELSE validated

\* one iteration of the loop: validated after looking at current
AlternationStep(validated, current) ==
    LET last == validated[Len(validated)]
    IN IF current.type # last.type
       THEN Append(validated, current)
       ELSE IF current.prominence > last.prominence
            THEN [validated EXCEPT ![Len(validated)] = current]
            ELSE validated

RECURSIVE AlternationLoop(_, _, _)
AlternationLoop(tides, i, validated) ==
    IF i <= Len(tides)
    THEN AlternationLoop(tides, i + 1, AlternationStep(validated, tides[i]))
    ELSE validated

enforceAlternation(tides) ==
    IF Len(tides) < 2 THEN tides ELSE AlternationLoop(tides, 2, <<tides[1]>>)

----------------------------------------------------------------------------
(* getPreciseTides STEP 4: validateTideSequence *)

\* an entry of the console: level, message, the tide kind and the hours
\* (in tenths, as toFixed(1) prints them) the message names
LogEntry(level, msg, kind, tenths) ==
    [level |-> level, msg |-> msg, type |-> kind, hours |-> tenths]

\* timeDiff.toFixed(1) for a difference of ms milliseconds, in tenths of an hour
ToFixed1(ms) == ToFixed2(10 * ms, HourMs)

\* ValidateAlternationStep repairing what it finds: tides.splice(i, 1)
ValidateAlternationStepRepairs(st, i) ==
    IF st.tides[i + 1].type = st.tides[i].type
    THEN [tides |-> SubSeq(st.tides, 1, i) \o SubSeq(st.tides, i + 2, Len(st.tides)),
          log |-> Append(st.log, LogEntry("error", "VALIDATION FAILED: Consecutive",
                                          st.tides[i + 1].type, 0)),
          hasIssues |-> TRUE]
    ELSE st

\* Check 1, the loop body at 0-based index i: st is the array, the console
\* and hasIssues before it, the result is the three after it
ValidateAlternationStep(st, i) ==
    IF st.tides[i + 1].type = st.tides[i].type
    THEN [tides |-> st.tides,
          log |-> Append(st.log, LogEntry("error", "VALIDATION FAILED: Consecutive",
                                          st.tides[i + 1].type, 0)),
          hasIssues |-> TRUE]
    ELSE st

RECURSIVE ValidateAlternationLoop(_, _)
ValidateAlternationLoop(st, i) ==
    IF i < Len(st.tides)
    THEN ValidateAlternationLoop(ValidateAlternationStep(st, i), i + 1)
    ELSE st

\* Check 2, the loop body at 0-based index i; timeDiff is in hours in the
\* source: timeDiff < 4.5 is 2 * ms < 9 * HourMs, timeDiff > 13 is ms > 13 * HourMs
ValidateSpacingStep(st, i) ==
    LET ms == DateParse(st.tides[i + 1].time) - DateParse(st.tides[i].time)
    IN IF 2 * ms < 9 * HourMs
       THEN [tides |-> st.tides,
             log |-> Append(st.log, LogEntry("warn", "Tides very close",
                                             st.tides[i + 1].type, ToFixed1(ms))),
             hasIssues |-> TRUE]
       ELSE IF ms > 13 * HourMs
            THEN [tides |-> st.tides,
                  log |-> Append(st.log, LogEntry("warn", "Large gap between tides",
                                                  st.tides[i + 1].type, ToFixed1(ms))),
                  hasIssues |-> st.hasIssues]
            ELSE st

RECURSIVE ValidateSpacingLoop(_, _)
ValidateSpacingLoop(st, i) ==
    IF i < Len(st.tides)
    THEN ValidateSpacingLoop(ValidateSpacingStep(st, i), i + 1)
    ELSE st

\* validateTideSequence(tides) in a build whose DEBUG_MODE is debug: the
\* array as the call leaves it, and what it wrote to the console
validateTideSequence(tides, debug) ==
    IF ~debug THEN [tides |-> tides, log |-> <<>>, hasIssues |-> FALSE]
    ELSE IF Len(tides) = 0
         THEN [tides |-> tides,
               log |-> <<LogEntry("warn", "No tides detected", "", 0)>>,
               hasIssues |-> FALSE]
         ELSE LET checked ==
                      ValidateSpacingLoop(
                          ValidateAlternationLoop(
                              [tides |-> tides, log |-> <<>>, hasIssues |-> FALSE], 1), 1)
              IN IF ~checked.hasIssues
                 THEN [checked EXCEPT
                          !.log = Append(@, LogEntry("log", "All validation checks passed",
                                                     "", 0))]
                 ELSE checked

----------------------------------------------------------------------------
(* displayTideData: the query layer *)

RECURSIVE CurrentIndexLoop(_, _, _, _)
\* for (i = 0; i < times.length; i++) if (timeDate <= now) currentIndex = i; else break;
CurrentIndexLoop(tms, t, i, cur) ==
    IF i < Len(tms) /\ DateParse(At(tms, i)) <= t
    THEN CurrentIndexLoop(tms, t, i + 1, i)
    ELSE cur

FindCurrentIndex(tms, t) == CurrentIndexLoop(tms, t, 0, 0)

\* TrendIsRising with nextHeight = seaLevels[ci + 1] || 0
TrendIsRisingOrZero(levels, ci) ==
    LET currentHeight == At(levels, ci)
        nextHeight == Or(At(levels, ci + 1), 0)
    IN Greater(nextHeight, currentHeight)

\* isRising: nextHeight > currentHeight with nextHeight = seaLevels[ci + 1] || currentHeight
TrendIsRising(levels, ci) ==
    LET currentHeight == At(levels, ci)
        nextHeight == Or(At(levels, ci + 1), currentHeight)
    IN Greater(nextHeight, currentHeight)

\* IsNext with >= for >
IsNextOrNow(e, kind, t) == e.type = kind /\ DateParse(e.time) >= t

\* t => t.type === kind && new Date(t.time) > now
IsNext(e, kind, t) == e.type = kind /\ DateParse(e.time) > t

RECURSIVE FindFrom(_, _, _, _)
\* Array.prototype.find: the first element from position k on that passes
FindFrom(tides, k, kind, t) ==
    IF k > Len(tides) THEN <<>>
    ELSE IF IsNext(tides[k], kind, t) THEN <<tides[k]>>
    ELSE FindFrom(tides, k + 1, kind, t)

\* preciseTides.find(t => t.type === kind && new Date(t.time) > now)
FindNext(tides, kind, t) == FindFrom(tides, 1, kind, t)

\* IsPast with < for <=
IsStrictlyPast(e, t) == DateParse(e.time) < t

\* t => new Date(t.time) <= now
IsPast(e, t) == DateParse(e.time) <= t

\* FindLast taking pastTides[0]
FindLastTakesFirst(tides, t) ==
    LET pastTides == SelectSeq(tides, LAMBDA e : IsPast(e, t))
    IN IF Len(pastTides) > 0 THEN <<pastTides[1]>> ELSE <<>>

\* pastTides = tides.filter(t => new Date(t.time) <= now); its last element or null
FindLast(tides, t) ==
    LET pastTides == SelectSeq(tides, LAMBDA e : IsPast(e, t))
    IN IF Len(pastTides) > 0 THEN <<pastTides[Len(pastTides)]>> ELSE <<>>

----------------------------------------------------------------------------
(* The popup around the engine: storage, location setup, pending requests *)

\* parseFloat of a text that does not start with a number; no coordinate has this value
NAN == 99999

\* the text of a place. A search result's name is built from the result,
\* a reverse-geocoded name from the coordinates asked for; by tells the two
\* apart, latitude and longitude say which place the text names
PlaceName(by, lat, lon) == [by |-> by, latitude |-> lat, longitude |-> lon]

\* reverseGeocode(lat, lon): the name the service gives, or the coordinates
\* as text when it fails
reverseGeocode(lat, lon) == PlaceName("geocode", lat, lon)

\* 'Loading location...'
LoadingLocation == PlaceName("loading", 0, 0)

\* an awaited operation: what was called and with which arguments
Task(op, lat, lon, name) == [op |-> op, latitude |-> lat, longitude |-> lon, name |-> name]

\* the bag with one more of task t, and with one less
Plus(bag, t) == bag (+) SetToBag({t})

Minus(bag, t) == bag (-) SetToBag({t})

\* showTideInfo(lat, lon, locationName) up to its first await, or to its
\* end when the name is given (fetchTideData runs up to its fetch);
\* rest is the bag of the operations still awaited elsewhere
showTideInfo(lat, lon, locationName, rest) ==
    /\ view' = "tide"
    /\ errorMessage' = ""
    /\ shown' = <<[latitude |-> lat, longitude |-> lon]>>
    /\ IF locationName # <<>>
       THEN /\ locationDisplay' = locationName
            /\ panel' = "loading"
            /\ panelFor' = <<>>
            /\ pending' = Plus(rest, Task("fetch", lat, lon, <<>>))
       ELSE /\ locationDisplay' = <<LoadingLocation>>
            /\ pending' = Plus(rest, Task("reverseGeocode", lat, lon, <<>>))
            /\ UNCHANGED <<panel, panelFor>>


\* the exhaustive family: every series of up to MaxLen samples, each sample
\* a gap, a negative height, 0 or a positive height
ShortSeries == UNION {[1..n -> {NULL, -1, 0, 1}] : n \in 0..MaxLen}

\* one period of a clean tide: LOW and HIGH five hours apart
TideWave == <<0, 1, 2, 3, 4, 5, 4, 3, 2, 1>>

\* the clean series of LongLen samples: LOW at sample 1 (0-based), HIGH at
\* sample 6, LOW at sample 11
CleanWave == [i \in 1..LongLen |-> TideWave[((i + 8) % 10) + 1]]

\* the wave family: the clean series with up to MaxSpikes samples replaced by
\* a gap, a height below the wave or a height above it
LongSeries ==
    UNION {{[i \in 1..LongLen |-> IF i \in P THEN f[i] ELSE CleanWave[i]] :
               f \in [P -> {NULL, -1, 6}]} :
              P \in {Q \in SUBSET (1..LongLen) : Cardinality(Q) <= MaxSpikes}}

StartMs == StartHour * HourMs

\* hourly ISO timestamps of a series of n samples
HourlyTimes(n) == [i \in 1..n |-> ToISOString(StartMs + (i - 1) * HourMs)]

\* every half hour from one hour before the first sample to one hour after the n-th
Instants(n) == {StartMs - HourMs + k * (HourMs \div 2) : k \in 0 .. 2 * (n + 1)}

\* every second hour from one hour before the first sample to after the n-th
LongInstants(n) == {StartMs - HourMs + k * 2 * HourMs : k \in 0 .. (n + 2) \div 2}

----------------------------------------------------------------------------
(* Specification *)

\* fetchTideData has received the response levels and is about to call
\* displayTideData, whose new Date() will read t, in a build whose
\* DEBUG_MODE is debug
FetchedIn(levels, t, debug) ==
    /\ seaLevels = levels
    /\ times = HourlyTimes(Len(levels))
    /\ now = t
    /\ pc = "fetched"
    /\ candidates = <<>>
    /\ filteredTides = <<>>
    /\ preciseTides = <<>>
    /\ currentIndex = 0
    /\ isRising = FALSE
    /\ nextHigh = <<>>
    /\ nextLow = <<>>
    /\ lastTide = <<>>
    /\ tideStatus = ""
    /\ panel = "loading"
    /\ DEBUG_MODE = debug
    /\ consoleLog = <<>>
    /\ storage = [latitude |-> 52, longitude |-> 4,
                  locationName |-> <<reverseGeocode(52, 4)>>]
    /\ selectedLocation = <<>>
    /\ latitudeInput = 52
    /\ longitudeInput = 4
    /\ view = "tide"
    /\ errorMessage = ""
    /\ locationDisplay = <<reverseGeocode(52, 4)>>
    /\ shown = <<[latitude |-> 52, longitude |-> 4]>>
    /\ panelFor = <<>>
    /\ pending = SetToBag({Task("fetch", 52, 4, <<>>)})
    /\ saves = 1
    /\ opened = 1
    /\ searchText = <<>>
    /\ searchResultsHidden = TRUE
    /\ searchResultsContent = ""
    /\ searches = 0

\* the same in the build of the source: const DEBUG_MODE = false
Fetched(levels, t) == FetchedIn(levels, t, FALSE)

Init == \E levels \in ShortSeries : \E t \in Instants(Len(levels)) : Fetched(levels, t)

InitLong == \E levels \in LongSeries : \E t \in LongInstants(Len(levels)) : Fetched(levels, t)

\* what displayTideData computes and renders from the response and the
\* instant it reads, with the call of getPreciseTides it makes:
\* candidates and filteredTides are STEP 1 and STEP 2 of getPreciseTides,
\* preciseTides is validatedTides of STEP 3 after the call of STEP 4
Rendered ==
    /\ pc' = "displayed"
    /\ currentIndex' = FindCurrentIndex(times', now')
    /\ isRising' = TrendIsRising(seaLevels', currentIndex')
    /\ candidates' = FindCandidates(seaLevels', times', 1)
    /\ filteredTides' = filterByTimeSeparation(candidates')
    /\ preciseTides' = validateTideSequence(enforceAlternation(filteredTides'), DEBUG_MODE').tides
    /\ consoleLog' = validateTideSequence(enforceAlternation(filteredTides'), DEBUG_MODE').log
    /\ nextHigh' = FindNext(preciseTides', "HIGH", now')
    /\ nextLow' = FindNext(preciseTides', "LOW", now')
    /\ lastTide' = FindLast(preciseTides', now')
    /\ tideStatus' = (IF isRising' THEN "Rising" ELSE "Falling")
    /\ panel' = "tides"

\* displayTideData(data) for the response at hand
DisplayTideData ==
    /\ pc = "fetched"
    /\ UNCHANGED <<seaLevels, times, now, DEBUG_MODE>>
    /\ Rendered
    /\ panelFor' = shown
    /\ pending' = Minus(pending, Task("fetch", shown[1].latitude, shown[1].longitude, <<>>))
    /\ UNCHANGED <<storage, selectedLocation, latitudeInput, longitudeInput, view,
                   errorMessage, locationDisplay, shown, saves, opened>>
    /\ UNCHANGED searchVars

Next == DisplayTideData

\* the exhaustive family of short series
Spec == Init /\ [][Next]_vars

\* the wave family of long series
SpecLong == InitLong /\ [][Next]_vars

\* an instant before the first sample and one in the middle of the series
DebugInstants == {StartMs - HourMs, StartMs + (LongLen \div 2) * HourMs}

InitDebug ==
    \E levels \in LongSeries : \E t \in DebugInstants : \E debug \in BOOLEAN :
        FetchedIn(levels, t, debug)

\* the wave family in builds with DEBUG_MODE false and true
SpecDebug == InitDebug /\ [][Next]_vars

----------------------------------------------------------------------------
(* The popup: init, the save and change-location handlers, and the
   completions of the operations they await *)

\* most clicks on saveLocationBtn
MaxSaves == 2

\* most times the popup is opened
MaxOpens == 2

\* how many queries the user types
MaxSearches == 1

\* the results the geocoding search offers: latitude, longitude and the
\* name selectLocation builds from result.name and result.country
SearchResults ==
    {[latitude |-> 52, longitude |-> 4, name |-> PlaceName("search", 52, 4)],
     [latitude |-> 0, longitude |-> 9, name |-> PlaceName("search", 0, 9)]}

\* what the user types into the latitude and longitude inputs, as parseFloat
\* reads it: a point on the equator, and a latitude out of range
ManualEntries == {<<0, 4>>, <<91, 4>>}

\* the page as it loads: nothing shown yet, init awaits chrome.storage.sync.get
PageLoaded ==
    /\ selectedLocation = <<>>
    /\ latitudeInput = NAN
    /\ longitudeInput = NAN
    /\ view = "none"
    /\ errorMessage = ""
    /\ locationDisplay = <<>>
    /\ shown = <<>>
    /\ panel = ""
    /\ panelFor = <<>>
    /\ pending = SetToBag({Task("get", 0, 0, <<>>)})
    /\ searchText = <<>>
    /\ searchResultsHidden = TRUE
    /\ searchResultsContent = ""
    /\ searches = 0
    /\ seaLevels = <<>>
    /\ times = <<>>
    /\ now = 0
    /\ pc = "idle"
    /\ candidates = <<>>
    /\ filteredTides = <<>>
    /\ preciseTides = <<>>
    /\ currentIndex = 0
    /\ isRising = FALSE
    /\ nextHigh = <<>>
    /\ nextLow = <<>>
    /\ lastTide = <<>>
    /\ tideStatus = ""
    /\ consoleLog = <<>>

\* the popup opened for the first time: nothing is stored
InitUI ==
    /\ PageLoaded
    /\ storage = [latitude |-> UNDEFINED, longitude |-> UNDEFINED, locationName |-> <<>>]
    /\ DEBUG_MODE = FALSE
    /\ saves = 0
    /\ opened = 1

\* the popup is closed and opened again: the page and its script start
\* afresh, what its awaits would have continued is gone, storage stays.
\* (Taken once the browser has carried out the storage writes issued.)
Reopen ==
    /\ opened < MaxOpens
    /\ \A t \in BagToSet(pending) : t.op \notin {"save", "saveName"}
    /\ opened' = opened + 1
    /\ selectedLocation' = <<>>
    /\ latitudeInput' = NAN
    /\ longitudeInput' = NAN
    /\ view' = "none"
    /\ errorMessage' = ""
    /\ locationDisplay' = <<>>
    /\ shown' = <<>>
    /\ panel' = ""
    /\ panelFor' = <<>>
    /\ pending' = SetToBag({Task("get", 0, 0, <<>>)})
    /\ searchText' = <<>>
    /\ searchResultsHidden' = TRUE
    /\ searchResultsContent' = ""
    /\ searches' = searches
    /\ seaLevels' = <<>>
    /\ times' = <<>>
    /\ now' = 0
    /\ pc' = "idle"
    /\ candidates' = <<>>
    /\ filteredTides' = <<>>
    /\ preciseTides' = <<>>
    /\ currentIndex' = 0
    /\ isRising' = FALSE
    /\ nextHigh' = <<>>
    /\ nextLow' = <<>>
    /\ lastTide' = <<>>
    /\ tideStatus' = ""
    /\ consoleLog' = <<>>
    /\ UNCHANGED <<storage, DEBUG_MODE, saves>>

\* init: chrome.storage.sync.get resolved
InitGetOk(task) ==
    /\ task.op = "get"
    /\ IF Truthy(storage.latitude) /\ Truthy(storage.longitude)
       THEN showTideInfo(storage.latitude, storage.longitude, storage.locationName,
                         Minus(pending, task))
       ELSE /\ view' = "setup"
            /\ errorMessage' = ""
            /\ pending' = Minus(pending, task)
            /\ UNCHANGED <<locationDisplay, shown, panel, panelFor>>
    /\ UNCHANGED <<engineVars, storage, selectedLocation, latitudeInput, longitudeInput,
                   saves, opened>>
    /\ UNCHANGED searchVars

\* init: chrome.storage.sync.get rejected
InitGetFailed(task) ==
    /\ task.op = "get"
    /\ errorMessage' = "Failed to load saved location"
    /\ pending' = Minus(pending, task)
    /\ UNCHANGED <<engineVars, panel, storage, selectedLocation, latitudeInput,
                   longitudeInput, view, locationDisplay, shown, panelFor, saves, opened>>
    /\ UNCHANGED searchVars

\* selectLocation(result), the click on a search result
selectLocation(result) ==
    /\ view = "setup"
    /\ ~searchResultsHidden
    /\ searchResultsContent = "results"
    /\ selectedLocation' = <<result>>
    /\ searchText' = <<result.name>>
    /\ searchResultsHidden' = TRUE
    /\ UNCHANGED <<engineVars, panel, storage, latitudeInput, longitudeInput, view,
                   errorMessage, locationDisplay, shown, panelFor, pending, saves, opened,
                   searchResultsContent, searches>>

\* a text of two or more characters typed into locationSearchInput
TypedQuery == PlaceName("typed", 0, 0)

\* what the user leaves in locationSearchInput: nothing, or a query
SearchTexts == {<<>>, <<TypedQuery>>}

\* clearTimeout(searchTimeout): the debounce timer, when one is running, is gone
ClearTimeout(bag) ==
    IF BagIn(Task("searchTimer", 0, 0, <<>>), bag)
    THEN Minus(bag, Task("searchTimer", 0, 0, <<>>))
    ELSE bag

\* the input handler of locationSearchInput: the user edits the search text
SearchInput(text) ==
    /\ view = "setup"
    /\ text # searchText
    /\ searchText' = text
    /\ IF text = <<>>
       THEN /\ searchResultsHidden' = TRUE
            /\ pending' = ClearTimeout(pending)
            /\ UNCHANGED searches
       ELSE /\ searches < MaxSearches
            /\ searches' = searches + 1
            /\ pending' = Plus(ClearTimeout(pending), Task("searchTimer", 0, 0, <<>>))
            /\ UNCHANGED searchResultsHidden
    /\ UNCHANGED <<engineVars, panel, storage, selectedLocation, latitudeInput,
                   longitudeInput, view, errorMessage, locationDisplay, shown, panelFor,
                   saves, opened, searchResultsContent>>

\* the debounce timer fires: searchLocations(query) up to its fetch
SearchTimerFires(task) ==
    /\ task.op = "searchTimer"
    /\ searchResultsContent' = "loading"
    /\ searchResultsHidden' = FALSE
    /\ pending' = Plus(Minus(pending, task), Task("search", 0, 0, <<>>))
    /\ UNCHANGED <<engineVars, panel, storage, selectedLocation, latitudeInput,
                   longitudeInput, view, errorMessage, locationDisplay, shown, panelFor,
                   saves, opened, searchText, searches>>

\* searchLocations after its awaits: the results are listed, each with its click handler
SearchOk(task) ==
    /\ task.op = "search"
    /\ searchResultsContent' = "results"
    /\ pending' = Minus(pending, task)
    /\ UNCHANGED <<engineVars, panel, storage, selectedLocation, latitudeInput,
                   longitudeInput, view, errorMessage, locationDisplay, shown, panelFor,
                   saves, opened, searchText, searchResultsHidden, searches>>

\* searchLocations: no results, or the fetch failed: a message is listed
SearchFailed(task) ==
    /\ task.op = "search"
    /\ searchResultsContent' = "message"
    /\ pending' = Minus(pending, task)
    /\ UNCHANGED <<engineVars, panel, storage, selectedLocation, latitudeInput,
                   longitudeInput, view, errorMessage, locationDisplay, shown, panelFor,
                   saves, opened, searchText, searchResultsHidden, searches>>

\* the user types coordinates into latitudeInput and longitudeInput
EditManual(entry) ==
    /\ view = "setup"
    /\ <<latitudeInput, longitudeInput>> # entry
    /\ latitudeInput' = entry[1]
    /\ longitudeInput' = entry[2]
    /\ UNCHANGED <<engineVars, panel, storage, selectedLocation, view, errorMessage,
                   locationDisplay, shown, panelFor, pending, saves, opened>>
    /\ UNCHANGED searchVars

\* a save handler in which coordinates typed by hand take precedence over
\* the selected search result
SaveClickPrefersInputs ==
    /\ view = "setup"
    /\ saves < MaxSaves
    /\ saves' = saves + 1
    /\ IF selectedLocation # <<>> /\ latitudeInput = NAN /\ longitudeInput = NAN
       THEN /\ pending' = Plus(pending, Task("save", selectedLocation[1].latitude,
                                             selectedLocation[1].longitude,
                                             <<selectedLocation[1].name>>))
            /\ UNCHANGED errorMessage
       ELSE IF latitudeInput = NAN \/ longitudeInput = NAN
            THEN /\ errorMessage' = "Please search for a location or enter valid coordinates"
                 /\ UNCHANGED pending
            ELSE IF latitudeInput < -90 \/ latitudeInput > 90
                    \/ longitudeInput < -180 \/ longitudeInput > 180
                 THEN /\ errorMessage' =
                           "Latitude must be between -90 and 90, longitude between -180 and 180"
                      /\ UNCHANGED pending
                 ELSE /\ pending' = Plus(pending, Task("save", latitudeInput,
                                                       longitudeInput, <<>>))
                      /\ UNCHANGED errorMessage
    /\ UNCHANGED <<engineVars, panel, storage, selectedLocation, latitudeInput,
                   longitudeInput, view, locationDisplay, shown, panelFor, opened>>
    /\ UNCHANGED searchVars

\* the click handler of saveLocationBtn, up to its await
SaveClick ==
    /\ view = "setup"
    /\ saves < MaxSaves
    /\ saves' = saves + 1
    /\ IF selectedLocation # <<>>
       THEN /\ pending' = Plus(pending, Task("save", selectedLocation[1].latitude,
                                             selectedLocation[1].longitude,
                                             <<selectedLocation[1].name>>))
            /\ UNCHANGED errorMessage
       ELSE IF latitudeInput = NAN \/ longitudeInput = NAN
            THEN /\ errorMessage' = "Please search for a location or enter valid coordinates"
                 /\ UNCHANGED pending
            ELSE IF latitudeInput < -90 \/ latitudeInput > 90
                    \/ longitudeInput < -180 \/ longitudeInput > 180
                 THEN /\ errorMessage' =
                           "Latitude must be between -90 and 90, longitude between -180 and 180"
                      /\ UNCHANGED pending
                 ELSE /\ pending' = Plus(pending, Task("save", latitudeInput,
                                                       longitudeInput, <<>>))
                      /\ UNCHANGED errorMessage
    /\ UNCHANGED <<engineVars, panel, storage, selectedLocation, latitudeInput,
                   longitudeInput, view, locationDisplay, shown, panelFor, opened>>
    /\ UNCHANGED searchVars

\* the save handler after its await: chrome.storage.sync.set resolved
SaveOk(task) ==
    /\ task.op = "save"
    /\ storage' = [latitude |-> task.latitude, longitude |-> task.longitude,
                   locationName |-> task.name]
    /\ showTideInfo(task.latitude, task.longitude, task.name, Minus(pending, task))
    /\ UNCHANGED <<engineVars, selectedLocation, latitudeInput, longitudeInput,
                   saves, opened>>
    /\ UNCHANGED searchVars

\* the save handler after its await: chrome.storage.sync.set rejected
SaveFailed(task) ==
    /\ task.op = "save"
    /\ errorMessage' = "Failed to save location"
    /\ pending' = Minus(pending, task)
    /\ UNCHANGED <<engineVars, panel, storage, selectedLocation, latitudeInput,
                   longitudeInput, view, locationDisplay, shown, panelFor, saves, opened>>
    /\ UNCHANGED searchVars

\* the click handler of changeLocationBtn
ChangeClick ==
    /\ view = "tide"
    /\ selectedLocation' = <<>>
    /\ latitudeInput' = NAN
    /\ longitudeInput' = NAN
    /\ view' = "setup"
    /\ errorMessage' = ""
    /\ searchText' = <<>>
    /\ searchResultsHidden' = TRUE
    /\ UNCHANGED <<engineVars, panel, storage, locationDisplay, shown, panelFor,
                   pending, saves, opened, searchResultsContent, searches>>

\* showTideInfo after await reverseGeocode(lat, lon), up to its second await
ReverseGeocodeDone(task) ==
    /\ task.op = "reverseGeocode"
    /\ locationDisplay' = <<reverseGeocode(task.latitude, task.longitude)>>
    /\ pending' = Plus(Minus(pending, task),
                       Task("saveName", task.latitude, task.longitude,
                            <<reverseGeocode(task.latitude, task.longitude)>>))
    /\ UNCHANGED <<engineVars, panel, storage, selectedLocation, latitudeInput,
                   longitudeInput, view, errorMessage, shown, panelFor, saves, opened>>
    /\ UNCHANGED searchVars

\* showTideInfo after await chrome.storage.sync.set({ locationName: name }):
\* fetchTideData(lat, lon) up to its fetch
SaveNameOk(task) ==
    /\ task.op = "saveName"
    /\ storage' = [storage EXCEPT !.locationName = task.name]
    /\ panel' = "loading"
    /\ panelFor' = <<>>
    /\ pending' = Plus(Minus(pending, task),
                       Task("fetch", task.latitude, task.longitude, <<>>))
    /\ UNCHANGED <<engineVars, selectedLocation, latitudeInput, longitudeInput, view,
                   errorMessage, locationDisplay, shown, saves, opened>>
    /\ UNCHANGED searchVars

\* the same set rejected: showTideInfo ends with the rejection
SaveNameFailed(task) ==
    /\ task.op = "saveName"
    /\ pending' = Minus(pending, task)
    /\ UNCHANGED <<engineVars, panel, storage, selectedLocation, latitudeInput,
                   longitudeInput, view, errorMessage, locationDisplay, shown, panelFor,
                   saves, opened>>
    /\ UNCHANGED searchVars

\* fetchTideData after its awaits: displayTideData(data) for the response
FetchOk(task) ==
    /\ task.op = "fetch"
    /\ seaLevels' = CleanWave
    /\ times' = HourlyTimes(LongLen)
    /\ now' = StartMs + HourMs
    /\ UNCHANGED DEBUG_MODE
    /\ Rendered
    /\ panelFor' = <<[latitude |-> task.latitude, longitude |-> task.longitude]>>
    /\ pending' = Minus(pending, task)
    /\ UNCHANGED <<storage, selectedLocation, latitudeInput, longitudeInput, view,
                   errorMessage, locationDisplay, shown, saves, opened>>
    /\ UNCHANGED searchVars

\* fetchTideData: fetch rejected or response.ok false
FetchFailed(task) ==
    /\ task.op = "fetch"
    /\ panel' = "error"
    /\ panelFor' = <<>>
    /\ pending' = Minus(pending, task)
    /\ UNCHANGED <<engineVars, storage, selectedLocation, latitudeInput, longitudeInput,
                   view, errorMessage, locationDisplay, shown, saves, opened>>
    /\ UNCHANGED searchVars

\* what can happen while the popup stays open: the user's gestures and the
\* completions of what the page awaits
NextLoad ==
    \/ SaveClick
    \/ ChangeClick
    \/ \E result \in SearchResults : selectLocation(result)
    \/ \E entry \in ManualEntries : EditManual(entry)
    \/ \E text \in SearchTexts : SearchInput(text)
    \/ \E task \in BagToSet(pending) : SearchTimerFires(task)
    \/ \E task \in BagToSet(pending) : SearchOk(task)
    \/ \E task \in BagToSet(pending) : SearchFailed(task)
    \/ \E task \in BagToSet(pending) : InitGetOk(task)
    \/ \E task \in BagToSet(pending) : InitGetFailed(task)
    \/ \E task \in BagToSet(pending) : SaveOk(task)
    \/ \E task \in BagToSet(pending) : SaveFailed(task)
    \/ \E task \in BagToSet(pending) : ReverseGeocodeDone(task)
    \/ \E task \in BagToSet(pending) : SaveNameOk(task)
    \/ \E task \in BagToSet(pending) : SaveNameFailed(task)
    \/ \E task \in BagToSet(pending) : FetchOk(task)
    \/ \E task \in BagToSet(pending) : FetchFailed(task)

NextUI ==
    \/ Reopen
    \/ NextLoad

\* the popup with its user and the services it awaits
SpecUI == InitUI /\ [][NextUI]_vars

\* one load of the popup, from its first opening until it is closed
SpecLoad == InitUI /\ [][NextLoad]_vars

----------------------------------------------------------------------------
(* What the claims speak of *)

\* number of samples
N == Len(seaLevels)

\* height of the sample at 0-based index i
H(i) == seaLevels[i + 1]

\* timestamp of the sample at 0-based index i, in ms
T(i) == DateParse(times[i + 1])

\* refined time of an event, in ms
TimeOf(e) == DateParse(e.time)

Displayed == pc = "displayed"

\* heights i-1, i, i+1 are all defined
DefinedTriple(i) == H(i - 1) # NULL /\ H(i) # NULL /\ H(i + 1) # NULL

StrictMax(i) == DefinedTriple(i) /\ H(i) > H(i - 1) /\ H(i) > H(i + 1)

StrictMin(i) == DefinedTriple(i) /\ H(i) < H(i - 1) /\ H(i) < H(i + 1)

Interior == 1 .. N - 2

Alternates(tides) == \A k \in 1 .. Len(tides) - 1 : tides[k].type # tides[k + 1].type

Separated(tides) ==
    \A k \in 1 .. Len(tides) - 1 :
        TimeOf(tides[k + 1]) - TimeOf(tides[k]) >= MIN_TIDE_SEPARATION_MS

Increasing(tides) == \A k \in 1 .. Len(tides) - 1 : TimeOf(tides[k]) < TimeOf(tides[k + 1])

----------------------------------------------------------------------------
(* C1 *)

\* C1: the list getPreciseTides returns never has two adjacent events of the
\* same kind, whatever the series (gaps and plateaus included).
C1_Alternation == Displayed => Alternates(preciseTides)

\* a series with a gap whose separation-filtered list had two adjacent events
\* of one kind, one of which enforceAlternation removed, leaving two or more
C1_Witness ==
    /\ Displayed
    /\ \E i \in 1..N : seaLevels[i] = NULL
    /\ ~Alternates(filteredTides)
    /\ Len(preciseTides) >= 2

----------------------------------------------------------------------------
(* C2 *)

\* C2: adjacent events of the list getPreciseTides returns are at least
\* MIN_TIDE_SEPARATION (4.5 h) apart, also after enforceAlternation has
\* replaced or dropped entries of the separation-filtered list.
C2_Separation == Displayed => Separated(preciseTides)

\* enforceAlternation replaced an entry of the separation-filtered list by a
\* later, more prominent one of its kind, and two or more events are returned
C2_Witness ==
    /\ Displayed
    /\ Len(preciseTides) >= 2
    /\ \E k \in 1 .. Len(preciseTides) :
          /\ filteredTides[k] # preciseTides[k]
          /\ \E j \in k + 1 .. Len(filteredTides) :
                /\ filteredTides[j] = preciseTides[k]
                /\ filteredTides[j - 1].type = preciseTides[k].type

----------------------------------------------------------------------------
(* C3 *)

\* C3: the refined times of the returned events are strictly increasing,
\* also when two raw candidates at adjacent samples are moved towards each
\* other by their interpolation offsets.
C3_Increasing == Displayed => Increasing(preciseTides)

\* two raw candidates at adjacent samples, the first moved later and the
\* second moved earlier, in a series that returns two or more events
C3_Witness ==
    /\ Displayed
    /\ Len(preciseTides) >= 2
    /\ \E k \in 1 .. Len(candidates) - 1 :
          /\ candidates[k + 1].index = candidates[k].index + 1
          /\ candidates[k].timeMs > T(candidates[k].index)
          /\ candidates[k + 1].timeMs < T(candidates[k + 1].index)

----------------------------------------------------------------------------
(* C4 *)

\* C4: a raw candidate is emitted at interior index i exactly when the three
\* heights around i are defined and h[i] is strictly above both neighbours
\* (HIGH) or strictly below both (LOW); nothing is emitted for index 0 and
\* n-1, for plateaus or for monotone triples; candidates are in series order.
C4_CandidateFinder ==
    Displayed =>
        /\ \A k \in 1 .. Len(candidates) :
              /\ candidates[k].index \in Interior
              /\ \/ candidates[k].type = "HIGH" /\ StrictMax(candidates[k].index)
                 \/ candidates[k].type = "LOW" /\ StrictMin(candidates[k].index)
        /\ \A i \in Interior :
              StrictMax(i) \/ StrictMin(i) =>
                  \E k \in 1 .. Len(candidates) : candidates[k].index = i
        /\ \A k \in 1 .. Len(candidates) - 1 :
              candidates[k].index < candidates[k + 1].index

\* a series with a HIGH candidate, a LOW candidate and a plateau that is skipped
C4_Witness ==
    /\ Displayed
    /\ \E k \in 1 .. Len(candidates) : candidates[k].type = "HIGH"
    /\ \E k \in 1 .. Len(candidates) : candidates[k].type = "LOW"
    /\ \E i \in Interior :
          /\ DefinedTriple(i)
          /\ H(i) = H(i + 1)
          /\ H(i) > H(i - 1)
          /\ \A k \in 1 .. Len(candidates) : candidates[k].index # i

----------------------------------------------------------------------------
(* C5 *)

\* the series with the sample at 0-based index g replaced by null
WithGap(g) == [seaLevels EXCEPT ![g + 1] = NULL]

\* the candidate of a candidate list at sample index i: <<>> or <<candidate>>
EntryAt(cands, i) == SelectSeq(cands, LAMBDA c : c.index = i)

\* C5: replacing one height by null suppresses the candidate at every index
\* whose 3-sample window holds the replaced sample, and every other index is
\* classified as before (candidate or not, kind, time, height, prominence).
C5_GapTolerance ==
    Displayed =>
        \A g \in 0 .. N - 1 :
            H(g) # NULL =>
                LET gapped == FindCandidates(WithGap(g), times, 1)
                IN \A i \in 0 .. N - 1 :
                       EntryAt(gapped, i) = IF i \in {g - 1, g, g + 1} THEN <<>>
                                            ELSE EntryAt(candidates, i)

\* a series with two candidates and a sample whose replacement suppresses the
\* one (as its neighbour) and leaves the other
C5_Witness ==
    /\ Displayed
    /\ \E g \in 0 .. N - 1 :
          /\ H(g) # NULL
          /\ EntryAt(candidates, g + 1) # <<>>
          /\ EntryAt(FindCandidates(WithGap(g), times, 1), g + 1) = <<>>
          /\ EntryAt(candidates, g + 3) # <<>>
          /\ EntryAt(FindCandidates(WithGap(g), times, 1), g + 3) # <<>>

----------------------------------------------------------------------------
(* C6 *)

\* fewer than 3 samples, or no interior strict extremum with defined neighbours
NoExtremum == N < 3 \/ \A i \in Interior : ~StrictMax(i) /\ ~StrictMin(i)

\* C6 as claimed: without an extremum getPreciseTides returns an empty list
\* and trend, next high, next low and last tide are all absent.
C6_AllAbsent ==
    Displayed /\ NoExtremum =>
        /\ panel = "tides"
        /\ preciseTides = <<>>
        /\ tideStatus = ""
        /\ nextHigh = <<>>
        /\ nextLow = <<>>
        /\ lastTide = <<>>

\* C6 amended: without an extremum displayTideData completes, getPreciseTides
\* returns an empty list, next high, next low and last tide are absent; the
\* trend is reported all the same.
C6_EmptyButTrend ==
    Displayed /\ NoExtremum =>
        /\ panel = "tides"
        /\ preciseTides = <<>>
        /\ tideStatus \in {"Rising", "Falling"}
        /\ nextHigh = <<>>
        /\ nextLow = <<>>
        /\ lastTide = <<>>

\* a series of three or more samples without an extremum, shown as rising
C6_Witness == Displayed /\ NoExtremum /\ N >= 3 /\ tideStatus = "Rising"

----------------------------------------------------------------------------
(* C7 *)

\* C7: when the current index is not the last sample, the trend is rising
\* exactly when height[current_index + 1] > height[current_index], for every
\* pair of heights (0 and negative heights included).
C7_TrendMatchesHeights ==
    Displayed /\ currentIndex < N - 1
              /\ H(currentIndex) # NULL /\ H(currentIndex + 1) # NULL =>
        (isRising <=> H(currentIndex + 1) > H(currentIndex))

----------------------------------------------------------------------------
(* C8 *)

\* opt is the first event of the given kind after now, and absent exactly
\* when there is none
FirstAfter(opt, kind) ==
    LET hits == {k \in 1 .. Len(preciseTides) :
                    preciseTides[k].type = kind /\ TimeOf(preciseTides[k]) > now}
    IN /\ opt = <<>> <=> hits = {}
       /\ hits # {} =>
             \E k \in hits : opt = <<preciseTides[k]>> /\ \A j \in hits : k <= j

\* C8: next high is the first event in sequence order of kind HIGH with
\* time strictly after now, next low the first of kind LOW, and each is
\* absent exactly when there is no such event.
C8_NextHighLow == Displayed => FirstAfter(nextHigh, "HIGH") /\ FirstAfter(nextLow, "LOW")

\* a LOW is exactly at now: it is not the next low, a later LOW is, and the
\* next high lies between the two
C8_Witness ==
    /\ Displayed
    /\ nextHigh # <<>>
    /\ nextLow # <<>>
    /\ \E k \in 1 .. Len(preciseTides) :
          preciseTides[k].type = "LOW" /\ TimeOf(preciseTides[k]) = now

----------------------------------------------------------------------------
(* C9 *)

\* C9: last tide is the last event in sequence order with time <= now (an
\* event exactly at now is past), and absent exactly when there is none.
C9_LastTide ==
    Displayed =>
        LET past == {k \in 1 .. Len(preciseTides) : TimeOf(preciseTides[k]) <= now}
        IN /\ lastTide = <<>> <=> past = {}
           /\ past # {} =>
                 \E k \in past : lastTide = <<preciseTides[k]>> /\ \A j \in past : j <= k

\* the last tide is exactly at now and is not the first event of the sequence
C9_Witness ==
    /\ Displayed
    /\ lastTide # <<>>
    /\ TimeOf(lastTide[1]) = now
    /\ lastTide[1] # preciseTides[1]

----------------------------------------------------------------------------
(* C10 *)

\* the reference instant is after the timestamp of the last sample
AfterLastSample == N >= 1 /\ now > T(N - 1)

\* C10: after the last sample the current index is the last index, the trend
\* is falling, next high and next low are absent and last tide is the final
\* entry of the returned sequence, when there is one.
C10_AfterLastSample ==
    Displayed /\ AfterLastSample =>
        /\ currentIndex = N - 1
        /\ ~isRising
        /\ tideStatus = "Falling"
        /\ nextHigh = <<>>
        /\ nextLow = <<>>
        /\ preciseTides # <<>> => lastTide = <<preciseTides[Len(preciseTides)]>>

\* after the last sample, which is negative, with two or more events returned
C10_Witness ==
    /\ Displayed
    /\ AfterLastSample
    /\ H(N - 1) < 0
    /\ Len(preciseTides) >= 2

----------------------------------------------------------------------------
(* C11 *)

\* the lists a state offers to the validator: with same-kind neighbours and
\* close neighbours (candidates, filteredTides) and without (preciseTides)
ValidatorInputs == {candidates, filteredTides, enforceAlternation(filteredTides)}

\* C11: validateTideSequence leaves the list it is given as it was, for
\* lists with and without alternation and spacing anomalies and for
\* DEBUG_MODE on and off; getPreciseTides returns validatedTides of STEP 3
\* under either DEBUG_MODE, and displayTideData completes.
C11_ValidatorReadOnly ==
    Displayed =>
        /\ \A debug \in BOOLEAN : \A tides \in ValidatorInputs :
              validateTideSequence(tides, debug).tides = tides
        /\ preciseTides = enforceAlternation(filteredTides)
        /\ panel = "tides"

\* a DEBUG_MODE build whose validator wrote to the console, and whose raw
\* candidates make the validator report consecutive tides of one kind and
\* tides that are too close
C11_Witness ==
    /\ Displayed
    /\ DEBUG_MODE
    /\ consoleLog # <<>>
    /\ preciseTides # <<>>
    /\ \E k \in 1 .. Len(validateTideSequence(candidates, TRUE).log) :
          validateTideSequence(candidates, TRUE).log[k].level = "error"
    /\ \E tides \in ValidatorInputs :
          \E k \in 1 .. Len(validateTideSequence(tides, TRUE).log) :
              validateTideSequence(tides, TRUE).log[k].msg = "Tides very close"

----------------------------------------------------------------------------
(* C13 *)

\* the raw heights around the sample a candidate was found at
Y1(c) == H(c.index - 1)

Y2(c) == H(c.index)

Y3(c) == H(c.index + 1)

\* C13: a candidate whose neighbour heights are equal has offset 0: its
\* refined time is the timestamp of its sample (as instant and as the ISO
\* string it carries) and its refined height is y2.
C13_SymmetricTriple ==
    Displayed =>
        \A k \in 1 .. Len(candidates) :
            Y1(candidates[k]) = Y3(candidates[k]) =>
                /\ candidates[k].timeMs = T(candidates[k].index)
                /\ candidates[k].time = times[candidates[k].index + 1]
                /\ candidates[k].height = Y2(candidates[k])

\* a series with a symmetric HIGH, a symmetric LOW and a candidate whose
\* neighbours differ and whose refined time is not its sample's
C13_Witness ==
    /\ Displayed
    /\ \E k \in 1 .. Len(candidates) :
          candidates[k].type = "HIGH" /\ Y1(candidates[k]) = Y3(candidates[k])
    /\ \E k \in 1 .. Len(candidates) :
          candidates[k].type = "LOW" /\ Y1(candidates[k]) = Y3(candidates[k])
    /\ \E k \in 1 .. Len(candidates) :
          /\ Y1(candidates[k]) # Y3(candidates[k])
          /\ candidates[k].timeMs # T(candidates[k].index)

----------------------------------------------------------------------------
(* C14 *)

\* C14: for every raw candidate the divisor 2 * (y1 - 2 * y2 + y3) is not
\* zero (the fallback offset = 0 is not taken) and the offset
\* (y1 - y3) / divisor lies in [-0.5, 0.5] hours: the refined time is at
\* most half an hour from the sample's timestamp.
C14_OffsetRange ==
    Displayed =>
        \A k \in 1 .. Len(candidates) :
            LET c == candidates[k]
            IN /\ Divisor(Y1(c), Y2(c), Y3(c)) # 0
               /\ 2 * Abs(Y1(c) - Y3(c)) <= Abs(Divisor(Y1(c), Y2(c), Y3(c)))
               /\ 2 * Abs(c.timeMs - T(c.index)) <= HourMs

\* a HIGH and a LOW candidate with offsets of more than a quarter of an hour
\* in opposite directions
C14_Witness ==
    /\ Displayed
    /\ \E k \in 1 .. Len(candidates) :
          /\ candidates[k].type = "HIGH"
          /\ 4 * (candidates[k].timeMs - T(candidates[k].index)) > HourMs
    /\ \E k \in 1 .. Len(candidates) :
          /\ candidates[k].type = "LOW"
          /\ 4 * (T(candidates[k].index) - candidates[k].timeMs) > HourMs

----------------------------------------------------------------------------
(* C15 *)

\* candidates a .. b (positions in the candidate list) are pairwise closer
\* than MIN_TIDE_SEPARATION
Conflicting(a, b) ==
    \A i, j \in a .. b :
        i < j => Abs(candidates[j].timeMs - candidates[i].timeMs) < MIN_TIDE_SEPARATION_MS

\* the violation clusters: the maximal runs of consecutive candidates that
\* are pairwise closer than MIN_TIDE_SEPARATION, as <<first, last>>
Clusters ==
    {r \in (1 .. Len(candidates)) \X (1 .. Len(candidates)) :
        /\ r[1] <= r[2]
        /\ Conflicting(r[1], r[2])
        /\ r[1] > 1 => ~Conflicting(r[1] - 1, r[2])
        /\ r[2] < Len(candidates) => ~Conflicting(r[1], r[2] + 1)}

\* the candidates of the run r that the separation filter returned
Retained(r) ==
    {i \in r[1] .. r[2] :
        \E k \in 1 .. Len(filteredTides) : filteredTides[k] = candidates[i]}

\* candidate i is the most prominent of the run r
MostProminent(i, r) ==
    \A j \in r[1] .. r[2] : candidates[j].prominence <= candidates[i].prominence

\* C15 as claimed: the filter's output holds exactly one candidate of every
\* violation cluster, and it is the most prominent of the cluster.
C15_OnePerClusterByStrength ==
    Displayed /\ Increasing(candidates) =>
        \A r \in Clusters :
            /\ Cardinality(Retained(r)) = 1
            /\ \A i \in Retained(r) : MostProminent(i, r)

\* candidate i is not in the filter's output
LeftOut(i) == \A k \in 1 .. Len(filteredTides) : filteredTides[k] # candidates[i]

\* C15 amended: the filter's output holds at most one candidate of every
\* violation cluster, and every candidate it leaves out is closer than
\* MIN_TIDE_SEPARATION to a candidate that is at least as prominent.
C15_AtMostOnePerCluster ==
    Displayed /\ Increasing(candidates) =>
        /\ \A r \in Clusters : Cardinality(Retained(r)) <= 1
        /\ \A i \in 1 .. Len(candidates) :
              LeftOut(i) =>
                  \E j \in 1 .. Len(candidates) :
                      /\ j # i
                      /\ Conflicting(IF i < j THEN i ELSE j, IF i < j THEN j ELSE i)
                      /\ candidates[j].prominence >= candidates[i].prominence

\* a cluster whose only retained candidate is not its most prominent, and a
\* cluster of which nothing is retained
C15_Witness ==
    /\ Displayed
    /\ Increasing(candidates)
    /\ \E r \in Clusters : \E i \in Retained(r) : ~MostProminent(i, r)
    /\ \E r \in Clusters : Retained(r) = {}

----------------------------------------------------------------------------
(* C16 *)

\* the filter's output for the first j candidates
FilteredUpTo(j) == filterByTimeSeparation(SubSeq(candidates, 1, j))

\* C16: the filter resolves conflicts greedily from left to right against
\* the last kept candidate only: the output for the first j candidates is
\* the output for the first j - 1 with candidate j appended when it is
\* MIN_TIDE_SEPARATION or more after the last kept one, put in its place
\* when it is closer and strictly more prominent, and unchanged otherwise.
C16_GreedyAgainstLastKept ==
    Displayed =>
        /\ filteredTides = FilteredUpTo(Len(candidates))
        /\ Len(candidates) >= 1 => FilteredUpTo(1) = <<candidates[1]>>
        /\ \A j \in 2 .. Len(candidates) :
              LET before == FilteredUpTo(j - 1)
                  last == before[Len(before)]
                  current == candidates[j]
              IN FilteredUpTo(j) =
                     IF current.timeMs - last.timeMs >= MIN_TIDE_SEPARATION_MS
                     THEN Append(before, current)
                     ELSE IF current.prominence > last.prominence
                          THEN SubSeq(before, 1, Len(before) - 1) \o <<current>>
                          ELSE before

\* a run of three or more mutually conflicting candidates of which exactly
\* one is retained, and that one is not the most prominent of the run
C16_Witness ==
    /\ Displayed
    /\ \E r \in Clusters :
          /\ r[2] - r[1] >= 2
          /\ Cardinality(Retained(r)) = 1
          /\ \E i \in Retained(r) : ~MostProminent(i, r)

----------------------------------------------------------------------------
(* C17 *)

\* out is a subsequence of inp: its entries are entries of inp, unchanged,
\* at strictly increasing positions of inp
IsSubsequence(out, inp) ==
    \E pos \in [1 .. Len(out) -> 1 .. Len(inp)] :
        /\ \A k \in 1 .. Len(out) : inp[pos[k]] = out[k]
        /\ \A k \in 1 .. Len(out) - 1 : pos[k] < pos[k + 1]

\* enforceAlternation's output for the first j entries of the filtered list
ValidatedUpTo(j) == enforceAlternation(SubSeq(filteredTides, 1, j))

\* C17: the list filterByTimeSeparation returns is a subsequence of the
\* candidates and the list enforceAlternation returns is a subsequence of
\* the filtered list (entries unchanged, in order, each at most once); and
\* enforceAlternation decides on entry j from entry j and the last kept
\* one alone: appended when the kinds differ, put in its place when it is
\* strictly more prominent, dropped otherwise.
C17_Subsequences ==
    Displayed =>
        /\ IsSubsequence(filteredTides, candidates)
        /\ IsSubsequence(preciseTides, filteredTides)
        /\ \A j \in 2 .. Len(filteredTides) :
              LET before == ValidatedUpTo(j - 1)
                  last == before[Len(before)]
                  current == filteredTides[j]
              IN ValidatedUpTo(j) =
                     IF current.type # last.type
                     THEN Append(before, current)
                     ELSE IF current.prominence > last.prominence
                          THEN SubSeq(before, 1, Len(before) - 1) \o <<current>>
                          ELSE before

\* both passes removed something: the filter left candidates out,
\* enforceAlternation removed an entry of the filtered list, and two or
\* more events are returned
C17_Witness ==
    /\ Displayed
    /\ Len(filteredTides) < Len(candidates)
    /\ Len(preciseTides) < Len(filteredTides)
    /\ Len(preciseTides) >= 2

----------------------------------------------------------------------------
(* C18 *)

\* the next events there are, as a set
NextEvents == {e \in {preciseTides[k] : k \in 1 .. Len(preciseTides)} :
                  nextHigh = <<e>> \/ nextLow = <<e>>}

\* the earlier of the next events
EarlierNext == CHOOSE e \in NextEvents : \A f \in NextEvents : TimeOf(e) <= TimeOf(f)

\* C18: when last tide and a next event exist, the earlier next event is
\* the entry right after last tide and has the other kind; when next high
\* and next low both exist they are adjacent entries of the sequence.
C18_QueryAdjacency ==
    Displayed =>
        /\ lastTide # <<>> /\ NextEvents # {} =>
              /\ EarlierNext.type # lastTide[1].type
              /\ \E k \in 1 .. Len(preciseTides) - 1 :
                    preciseTides[k] = lastTide[1] /\ preciseTides[k + 1] = EarlierNext
        /\ nextHigh # <<>> /\ nextLow # <<>> =>
              \E k \in 1 .. Len(preciseTides) - 1 :
                  {preciseTides[k], preciseTides[k + 1]} = {nextHigh[1], nextLow[1]}

\* last tide, next high and next low all exist, and the series was
\* disturbed (a sample is a gap)
C18_Witness ==
    /\ Displayed
    /\ lastTide # <<>>
    /\ nextHigh # <<>>
    /\ nextLow # <<>>
    /\ TimeOf(lastTide[1]) < now
    /\ \E i \in 1 .. N : seaLevels[i] = NULL

----------------------------------------------------------------------------
(* C12 *)

\* init's chrome.storage.sync.get resolves
InitGetResolves == \E task \in BagToSet(pending) : InitGetOk(task)

\* the save handler has persisted a location
Persisted == storage.latitude # UNDEFINED /\ storage.longitude # UNDEFINED

\* C12: when init reads a location the save handler persisted, it shows
\* the tide view for exactly the stored coordinates, latitude 0 or
\* longitude 0 included.
C12_RestoredOnInit ==
    [][InitGetResolves /\ Persisted =>
           /\ view' = "tide"
           /\ shown' = <<[latitude |-> storage.latitude, longitude |-> storage.longitude]>>]_vars

----------------------------------------------------------------------------
(* C19 *)

\* C19: once nothing is pending, the locationName in storage is either
\* none or a name of the place at the latitude and longitude in storage.
C19_StoredNameBelongs ==
    pending = EmptyBag /\ storage.locationName # <<>> =>
        /\ storage.locationName[1].latitude = storage.latitude
        /\ storage.locationName[1].longitude = storage.longitude

----------------------------------------------------------------------------
(* C20 *)

\* C20: once nothing is pending, the tide data in the tide panel was
\* fetched for the coordinates of the latest showTideInfo call.
C20_RenderedForLatest ==
    pending = EmptyBag /\ panel = "tides" => panelFor = shown

----------------------------------------------------------------------------
(* C21 *)

\* a step in which saveLocationBtn is clicked
SaveStep == saves' = saves + 1

\* the coordinates in the manual inputs are numbers within range
InputsInRange ==
    /\ latitudeInput # NAN
    /\ longitudeInput # NAN
    /\ latitudeInput >= -90
    /\ latitudeInput <= 90
    /\ longitudeInput >= -180
    /\ longitudeInput <= 180

\* the messages the save handler shows for manual inputs it rejects
InputErrors ==
    {"Please search for a location or enter valid coordinates",
     "Latitude must be between -90 and 90, longitude between -180 and 180"}

\* the write to chrome.storage.sync of the selected search result
SaveOfSelected ==
    Task("save", selectedLocation[1].latitude, selectedLocation[1].longitude,
         <<selectedLocation[1].name>>)

\* what a step may do to selectedLocation, and what a click on save does
SelectionGovernsSave ==
    /\ selectedLocation' # selectedLocation /\ selectedLocation' # <<>> =>
           \E result \in SearchResults :
               selectLocation(result) /\ selectedLocation' = <<result>>
    /\ selectedLocation' # selectedLocation /\ selectedLocation' = <<>> =>
           ChangeClick
    /\ SaveStep /\ selectedLocation # <<>> =>
           /\ pending' = Plus(pending, SaveOfSelected)
           /\ errorMessage' = errorMessage
    /\ SaveStep /\ selectedLocation = <<>> =>
           IF InputsInRange
           THEN /\ pending' = Plus(pending, Task("save", latitudeInput, longitudeInput, <<>>))
                /\ errorMessage' = errorMessage
           ELSE /\ pending' = pending
                /\ errorMessage' \in InputErrors

\* C21: while the popup is open, selectedLocation is given a value only by
\* selectLocation (the result clicked) and is cleared only by the
\* change-location handler; a click on save while a result is selected
\* writes that result's coordinates and name, whatever the search text and
\* the manual inputs hold, and shows no error; a click on save while none
\* is selected writes the manual coordinates, without a name, only if both
\* are numbers within range, and shows an error otherwise.
C21_SelectionGovernsSave == [][SelectionGovernsSave]_vars

\* a result was selected, the search text was then emptied, the manual
\* inputs hold a latitude out of range, and the write of the selected
\* result is under way with no error shown
C21_Witness ==
    /\ selectedLocation # <<>>
    /\ searchText = <<>>
    /\ latitudeInput = 91
    /\ errorMessage = ""
    /\ BagIn(SaveOfSelected, pending)

====
